---- MODULE Spec2Model ----
(***************************************************************************)
(* Model of the scorecard pipeline of social-media-visuals-automation:     *)
(* main.py (fetch loop with fallback), scorecard_api.py (the two parsers   *)
(* and their dispatcher) and data_processing.py (top-6 selection and       *)
(* sponsor join).                                                          *)
(*                                                                         *)
(* Conventions.  A Python str is a sequence of tokens (a token is a run of *)
(* characters that no operation of the program splits: a word, a blank, a  *)
(* marker glyph), so `in`, replace, strip and startswith are computed on   *)
(* sequences.  A JSON object / dict is a function from keys to values and  *)
(* a key can be absent.  The result of dict.get(k) is an option: <<>> is   *)
(* None (NaN inside a DataFrame) and <<v>> is the value v.  A DataFrame is *)
(* the sequence of its rows; a DataFrame built from no rows has no columns.*)
(***************************************************************************)
EXTENDS Integers, Sequences, FiniteSets, TLC

VARIABLES
    match_numbers,     \* main: list returned by get_match_ids()
    api_header,        \* main: value returned by the header probe (option)
    idx,               \* main: position of the for loop in match_numbers
    pc,                \* control point of the running function
    data,              \* main / process_data: the raw scorecard payload
    rv_match_id,       \* results_vault_api_call: result of the mapping lookup
    nv_calls,          \* per match: requests sent to the NV endpoint
    map_calls,         \* per match: requests sent to the mapping endpoint
    rv_calls,          \* per match: requests sent to the Results Vault endpoint
    outcome,           \* per match: "pending", "fetched", "normalized" or "skipped"
    nv_reply,          \* per match: what the NV endpoint answered
    normalized,        \* per match: the payload handed to process_data (option)
    called,            \* process_data: the parser it delegated to
    ret,               \* process_data: what it returned or raised
    all_batting_dfs,   \* main: accumulator of per-match batting frames
    all_bowling_dfs,   \* main: accumulator of per-match bowling frames
    batting_df,        \* SponsorDataProcessor.batting_df
    bowling_df,        \* SponsorDataProcessor.bowling_df
    df,                \* SponsorDataProcessor.df (the sponsor CSV as read)
    result,            \* SponsorDataProcessor.result (the roster)
    top_6_batters,     \* data_wrangling: first returned frame
    top_6_bowlers,     \* data_wrangling: second returned frame
    y_positions,       \* generate_*_image: the row positions (option)
    responses,         \* get_scorecard: what the three endpoints answer
    error              \* the exception that ended the run, "None" while there is none

\* the locals of main's fetch loop and the log of its requests
mainVars == <<match_numbers, api_header, idx, data, rv_match_id, nv_calls,
              map_calls, rv_calls, outcome, nv_reply, normalized,
              all_batting_dfs, all_bowling_dfs>>

\* the fields of SponsorDataProcessor and what data_wrangling returned
selVars == <<batting_df, bowling_df, df, result, top_6_batters, top_6_bowlers>>

vars == <<mainVars, selVars, y_positions, responses, pc, called, ret, error>>

---------------------------------------------------------------------------
(* Python values                                                           *)

None == <<>>
Some(v) == <<v>>

\* d.get(k): the value under k, None when the key is absent
Get(d, k) == IF k \in DOMAIN d THEN Some(d[k]) ELSE None

\* d.get(k, default)
GetOr(d, k, default) == IF k \in DOMAIN d THEN d[k] ELSE default

\* needle in hay
Contains(needle, hay) ==
    \E i \in 0..(Len(hay) - Len(needle)) :
        SubSeq(hay, i + 1, i + Len(needle)) = needle

\* s.startswith(prefix)
StartsWith(s, prefix) ==
    Len(prefix) <= Len(s) /\ SubSeq(s, 1, Len(prefix)) = prefix

\* hay.replace(needle, ''): leftmost non-overlapping occurrences removed
RECURSIVE Remove(_, _)
Remove(hay, needle) ==
    IF hay = <<>> \/ needle = <<>> THEN hay
    ELSE IF StartsWith(hay, needle)
         THEN Remove(SubSeq(hay, Len(needle) + 1, Len(hay)), needle)
         ELSE <<Head(hay)>> \o Remove(Tail(hay), needle)

\* s.strip()
RECURSIVE LStrip(_)
LStrip(s) == IF s # <<>> /\ Head(s) = " " THEN LStrip(Tail(s)) ELSE s

RECURSIVE RStrip(_)
RStrip(s) ==
    IF s # <<>> /\ s[Len(s)] = " " THEN RStrip(SubSeq(s, 1, Len(s) - 1)) ELSE s

Strip(s) == RStrip(LStrip(s))

\* round(x, 2) of a whole number of runs
Round2(x) == x

\* all sequences over S of length at most n
SeqsUpTo(S, n) == UNION {[1..k -> S] : k \in 0..n}

---------------------------------------------------------------------------
(* Bounds and input palettes                                               *)

MaxInnings == 2      \* innings per NV payload
MaxTeams == 2        \* teams per Results Vault payload
MaxMatches == 2      \* match ids per run
MaxRows == 9         \* rows of a season table given to the selector

team_name == <<"Lightcliffe", " ", "CC">>

\* team labels
ClubFirst == team_name \o <<" ", "1st", " ", "XI">>
ClubBare == team_name
OppLabel == <<"Opp", " ", "CC">>

\* entries of an NV batting card and bowling card
NvBatsmen ==
    <<[PlayerName |-> <<"A Smith", "*">>, Runs |-> 50, Balls |-> 30,
       Fours |-> 6, Sixes |-> 1, HowOut |-> <<"not out">>, IsDismissed |-> FALSE],
      [PlayerName |-> <<"T Stead">>, Runs |-> 50, Balls |-> 41, Minutes |-> 60,
       HowOut |-> <<"b Khan">>, IsDismissed |-> TRUE],
      [PlayerName |-> <<"Extras">>, Runs |-> 12]>>

NvBowlers ==
    <<[PlayerName |-> <<"B Jones">>, Overs |-> 4, Maidens |-> 0, Runs |-> 20,
       Wickets |-> 2, Economy |-> 5],
      [PlayerName |-> <<"A Smith">>, Overs |-> 2, Runs |-> 9, Wickets |-> 2]>>

\* innings of an NV payload
NvInnings ==
    {[BattingTeamName |-> ClubFirst, BattingCard |-> NvBatsmen,
      BowlingCard |-> SubSeq(NvBowlers, 1, 1)],
     [BattingTeamName |-> OppLabel, BattingCard |-> SubSeq(NvBatsmen, 2, 3),
      BowlingCard |-> NvBowlers],
     [BattingTeamName |-> ClubBare, BattingCard |-> SubSeq(NvBatsmen, 1, 1),
      BowlingCard |-> SubSeq(NvBowlers, 2, 2)],
     [BattingTeamName |-> ClubFirst]}

\* the "Match" object of an NV payload
NvMatches ==
    {[Team1Name |-> ClubFirst, Team2Name |-> OppLabel],
     [Team1Name |-> OppLabel, Team2Name |-> ClubFirst],
     [Team1Name |-> ClubBare, Team2Name |-> OppLabel]}

\* performance entries of a Results Vault innings
RvPerfs ==
    <<[__type |-> <<"Batting", "Perf">>, player_id |-> 1, player_name |-> <<"A Smith">>,
       runs |-> 31, balls |-> 20, dismissal_text |-> <<"no">>],
      [__type |-> <<"Bowling", "Perf">>, player_id |-> 2, player_name |-> <<"B Jones">>,
       overs |-> 3, runs |-> 10, wickets |-> 1],
      [__type |-> <<"Batting">>, player_id |-> 3, player_name |-> <<"C Brown">>,
       runs |-> 7, balls |-> 9, dismissal_text |-> <<"b Khan">>],
      [__type |-> <<"Bowling">>, player_id |-> 1, overs |-> 0, runs |-> 0],
      [__type |-> <<"Fielding", "Perf">>, player_id |-> 2],
      [__type |-> <<"Non", "Batting">>, player_id |-> 3],
      [player_id |-> 1, runs |-> 4],
      [__type |-> <<"Bowling", "Perf">>, player_id |-> 2, runs |-> 5, wickets |-> 1],
      [__type |-> <<"Bowling", "Perf">>, player_id |-> 3, player_name |-> <<"C Brown">>,
       overs |-> 8, runs |-> 29]>>

\* teams of a Results Vault payload
RvTeams ==
    {[team_name |-> ClubFirst,
      TeamMembers |-> <<[player_id |-> 1, player_name2 |-> <<"Alan Smith">>]>>,
      Innings |-> <<[PlayerPerfs |-> RvPerfs]>>],
     [team_name |-> OppLabel,
      TeamMembers |-> <<[player_id |-> 2, player_name2 |-> <<"Bob Jones">>],
                        [player_id |-> 1, player_name2 |-> <<"Alan Smith", "*">>]>>,
      Innings |-> <<[PlayerPerfs |-> SubSeq(RvPerfs, 1, 2)],
                    [PlayerPerfs |-> SubSeq(RvPerfs, 3, 5) \o SubSeq(RvPerfs, 8, 9)]>>],
     [team_name |-> ClubFirst,
      Innings |-> <<[PlayerPerfs |-> SubSeq(RvPerfs, 3, 4)]>>],
     [team_name |-> OppLabel]}

\* the home_name / away_name keys of a Results Vault payload
RvNames ==
    {[home_name |-> ClubFirst, away_name |-> OppLabel],
     [home_name |-> OppLabel, away_name |-> ClubFirst],
     <<>>}

\* rows of a season batting table, as the parsers emit them
BatRow(name, runs, balls, minutes) ==
    [PlayerTeamName |-> <<"1st", " ", "XI">>, OppositionTeamName |-> OppLabel,
     PlayerName |-> Some(name), Runs |-> Some(runs), Balls |-> balls,
     Minutes |-> minutes, Fours |-> None, Sixes |-> None, StrikeRate |-> None,
     HowOut |-> None, IsDismissed |-> Some(TRUE)]

BattingMaster ==
    <<BatRow(<<"A Smith", "*">>, 50, Some(30), None),
      BatRow(<<"Extras">>, 99, None, None),
      BatRow(<<"T Stead">>, 50, Some(41), Some(60)),
      BatRow(<<"B Jones", "dagger">>, 50, Some(30), None),
      BatRow(<<"C Brown">>, 7, Some(9), Some(15)),
      BatRow(<<"Total">>, 250, None, None),
      BatRow(<<"A Smith">>, 12, Some(10), None),
      BatRow(<<"D Patel">>, 0, Some(0), None),
      BatRow(<<"E Khan">>, 50, Some(25), None),
      BatRow(<<"F Ali">>, 64, Some(70), Some(81)),
      BatRow(<<"G Roy">>, 7, Some(9), None)>>

\* rows of a season bowling table
BowlRow(name, wickets, runs, economy) ==
    [PlayerTeamName |-> <<"1st", " ", "XI">>, OppositionTeamName |-> OppLabel,
     PlayerName |-> Some(name), Overs |-> Some(4), Maidens |-> None,
     Runs |-> Some(runs), Wickets |-> Some(wickets), Economy |-> economy,
     Dots |-> None, Fours |-> None, Sixes |-> None, NoBalls |-> None,
     Wides |-> None]

BowlingMaster ==
    <<BowlRow(<<"B Jones">>, 2, 20, Some(500)),
      BowlRow(<<"A Smith", "*">>, 2, 9, None),
      BowlRow(<<"Extras">>, 0, 5, None),
      BowlRow(<<"T Stead", "dagger">>, 3, 30, Some(750)),
      BowlRow(<<"C Brown">>, 0, 12, None),
      BowlRow(<<"Total">>, 9, 150, None),
      BowlRow(<<"D Patel">>, 2, 20, Some(500)),
      BowlRow(<<"E Khan">>, 5, 11, None),
      BowlRow(<<"F Ali">>, 1, 4, None),
      BowlRow(<<"A Smith">>, 3, 30, None),
      BowlRow(<<"G Roy">>, 0, 0, None)>>

\* the rows of master at the positions of mask, a subset of 1..k, in order
RECURSIVE PickRows(_, _, _)
PickRows(master, k, mask) ==
    IF k = 0 THEN <<>>
    ELSE PickRows(master, k - 1, mask) \o (IF k \in mask THEN <<master[k]>> ELSE <<>>)

\* sponsor sheets as read from the CSV export; a cell can be missing
CsvRow(player, sponsor) == ("Player Name" :> player) @@ ("Sponsor Name" :> sponsor)

SponsorCsvs ==
    {<<>>,
     <<CsvRow(<<"A Smith">>, <<"Acme">>), CsvRow(<<"Ted Stead">>, <<"Bolt">>),
       CsvRow(<<"B Jones">>, <<"Cask">>), ("Player Name" :> <<"C Brown">>),
       ("Sponsor Name" :> <<"Dune">>)>>,
     <<CsvRow(<<"A Smith">>, <<"Acme">>), CsvRow(<<"E Khan">>, <<"Elm">>),
       CsvRow(<<"A Smith">>, <<"Fig">>)>>,
     <<CsvRow(<<"A Smith", "*">>, <<"Gale">>), CsvRow(<<"T Stead">>, <<"Hull">>),
       CsvRow(<<"Extras">>, <<"Iris">>)>>}

Absent == {<<>>}

\* the key groups a payload is assembled from; <<>> adds no key
MatchKey == Absent \cup {"Match" :> m : m \in NvMatches}
InningsKey == Absent \cup {"Innings" :> i : i \in SeqsUpTo(NvInnings, MaxInnings)}
InningsFew ==
    Absent \cup {"Innings" :> i : i \in {<<>>, <<CHOOSE x \in NvInnings :
                                                  "BowlingCard" \notin DOMAIN x>>}}
RvKeys ==
    Absent \cup {("MatchTeams" :> t) @@ n : t \in SeqsUpTo(RvTeams, MaxTeams), n \in RvNames}
RvFew ==
    Absent \cup {("MatchTeams" :> <<t>>) @@ n :
                    t \in {x \in RvTeams : "TeamMembers" \in DOMAIN x}, n \in RvNames}

\* payloads given to process_data: every combination of key presence, with
\* the full variety of either shape
Payloads ==
    {m @@ i @@ r : m \in MatchKey, i \in InningsKey, r \in RvFew}
      \cup {m @@ i @@ r : m \in MatchKey, i \in InningsFew, r \in RvKeys}


---------------------------------------------------------------------------
(* scorecard_api.py: the two parsers and their dispatcher                  *)

Return(batting, bowling) == [err |-> "None", batting |-> batting, bowling |-> bowling]
Raise(e) == [err |-> e, batting |-> <<>>, bowling |-> <<>>]

\* s1 + s2 + ... for a sequence of sequences
RECURSIVE Flatten(_)
Flatten(ss) == IF ss = <<>> THEN <<>> ELSE Head(ss) \o Flatten(Tail(ss))

\* lines 143-152 and 209-217: the club's team number and the opposition label
TeamNumber(team1, team2) ==
    IF Contains(team_name, team1)
    THEN Strip(Remove(team1, team_name))
    ELSE Strip(Remove(team2, team_name))

\* Opposition taking the second-listed side whatever the labels
OppositionAlwaysSecond(team1, team2) == team2

Opposition(team1, team2) ==
    IF Contains(team_name, team1) THEN team2 ELSE team1

\* lines 157-169
NvBattingRow(batsman, team_number, opposition) ==
    [PlayerTeamName |-> team_number,
     OppositionTeamName |-> opposition,
     PlayerName |-> Get(batsman, "PlayerName"),
     Runs |-> Some(Round2(GetOr(batsman, "Runs", 0))),
     Balls |-> Get(batsman, "Balls"),
     Minutes |-> Get(batsman, "Minutes"),
     Fours |-> Get(batsman, "Fours"),
     Sixes |-> Get(batsman, "Sixes"),
     StrikeRate |-> Get(batsman, "StrikeRate"),
     HowOut |-> Get(batsman, "HowOut"),
     IsDismissed |-> Get(batsman, "IsDismissed")]

\* lines 172-186
NvBowlingRow(bowler, team_number, opposition) ==
    [PlayerTeamName |-> team_number,
     OppositionTeamName |-> opposition,
     PlayerName |-> Get(bowler, "PlayerName"),
     Overs |-> Get(bowler, "Overs"),
     Maidens |-> Get(bowler, "Maidens"),
     Runs |-> Get(bowler, "Runs"),
     Wickets |-> Get(bowler, "Wickets"),
     Economy |-> Get(bowler, "Economy"),
     Dots |-> Get(bowler, "Dots"),
     Fours |-> Get(bowler, "Fours"),
     Sixes |-> Get(bowler, "Sixes"),
     NoBalls |-> Get(bowler, "NoBalls"),
     Wides |-> Get(bowler, "Wides")]

\* line 155: the innings is the club's own batting innings
IsClubInnings(innings, team_number) ==
    Get(innings, "BattingTeamName") = Some(team_name \o <<" ">> \o team_number)

\* NvInningsBatting with the first entry of every batting card lost
NvInningsBattingSkipFirst(innings, team_number, opposition) ==
    IF IsClubInnings(innings, team_number)
    THEN LET card == GetOr(innings, "BattingCard", <<>>)
         IN  [i \in 1..(Len(card) - 1) |->
                NvBattingRow(card[i + 1], team_number, opposition)]
    ELSE <<>>

\* lines 154-186: the rows one innings appends to batting and to bowling
NvInningsBatting(innings, team_number, opposition) ==
    IF IsClubInnings(innings, team_number)
    THEN LET card == GetOr(innings, "BattingCard", <<>>)
         IN  [i \in 1..Len(card) |-> NvBattingRow(card[i], team_number, opposition)]
    ELSE <<>>

NvInningsBowling(innings, team_number, opposition) ==
    IF IsClubInnings(innings, team_number)
    THEN <<>>
    ELSE LET card == GetOr(innings, "BowlingCard", <<>>)
         IN  [i \in 1..Len(card) |-> NvBowlingRow(card[i], team_number, opposition)]

\* lines 129-187
nv_process_data(payload) ==
    LET match == GetOr(payload, "Match", <<>>)
        team1 == GetOr(match, "Team1Name", <<>>)
        team2 == GetOr(match, "Team2Name", <<>>)
        team_number == TeamNumber(team1, team2)
        opposition == Opposition(team1, team2)
        inns == GetOr(payload, "Innings", <<>>)
    IN  Return(
          Flatten([i \in 1..Len(inns) |->
                     NvInningsBatting(inns[i], team_number, opposition)]),
          Flatten([i \in 1..Len(inns) |->
                     NvInningsBowling(inns[i], team_number, opposition)]))


\* lines 223-226: the TeamMembers of every team, in payload order
AllMembers(teams) ==
    Flatten([i \in 1..Len(teams) |-> GetOr(teams[i], "TeamMembers", <<>>)])

\* lines 230-235: every performance entry in payload order, with the flag
\* team_is_lightcliffe of its team
TeamPerfs(team) ==
    LET inns == GetOr(team, "Innings", <<>>)
        perfs == Flatten([i \in 1..Len(inns) |-> GetOr(inns[i], "PlayerPerfs", <<>>)])
    IN  [i \in 1..Len(perfs) |->
           [perf |-> perfs[i],
            team_is_lightcliffe |-> Contains(team_name, GetOr(team, "team_name", <<>>))]]

AllPerfs(teams) == Flatten([i \in 1..Len(teams) |-> TeamPerfs(teams[i])])

\* lines 226 and 237: player_id_to_full_name.get(player_id, perf.get("player_name"));
\* a later roster entry for the same id overwrites an earlier one
RECURSIVE FullPlayerName(_, _)
FullPlayerName(members, perf) ==
    IF members = <<>> THEN Get(perf, "player_name")
    ELSE LET last == members[Len(members)]
         IN  IF Get(perf, "player_id") = Some(last["player_id"])
             THEN Get(last, "player_name2")
             ELSE FullPlayerName(SubSeq(members, 1, Len(members) - 1), perf)

\* line 250
IsDismissedRv(perf) ==
    Get(perf, "dismissal_text") \notin {None, Some(<<>>), Some(<<"dnb">>), Some(<<"no">>)}

\* Economy giving 0 instead of None for an entry without overs
EconomyZeroWithoutOvers(runs, overs) ==
    IF overs = 0 THEN Some(0)
    ELSE LET q == (runs * 100) \div overs
             r2 == 2 * ((runs * 100) % overs)
         IN  Some(IF r2 > overs \/ (r2 = overs /\ q % 2 = 1) THEN q + 1 ELSE q)

\* line 255: round(runs / overs, 2) if overs else None, in hundredths of a run
\* (round half to even on the exact quotient)
Economy(runs, overs) ==
    IF overs = 0 THEN None
    ELSE LET q == (runs * 100) \div overs
             r2 == 2 * ((runs * 100) % overs)
         IN  Some(IF r2 > overs \/ (r2 = overs /\ q % 2 = 1) THEN q + 1 ELSE q)

\* lines 239-251
RvBattingRow(perf, members, team_number, opposition) ==
    [PlayerTeamName |-> team_number,
     OppositionTeamName |-> opposition,
     PlayerName |-> FullPlayerName(members, perf),
     Runs |-> Get(perf, "runs"),
     Balls |-> Get(perf, "balls"),
     Minutes |-> Get(perf, "minutes"),
     Fours |-> Get(perf, "fours"),
     Sixes |-> Get(perf, "sixes"),
     StrikeRate |-> Get(perf, "strike_rate"),
     HowOut |-> Get(perf, "dismissal_text"),
     IsDismissed |-> Some(IsDismissedRv(perf))]

\* lines 253-270
RvBowlingRow(perf, members, team_number, opposition) ==
    [PlayerTeamName |-> team_number,
     OppositionTeamName |-> opposition,
     PlayerName |-> FullPlayerName(members, perf),
     Overs |-> Some(GetOr(perf, "overs", 0)),
     Maidens |-> Get(perf, "maidens"),
     Runs |-> Some(GetOr(perf, "runs", 0)),
     Wickets |-> Get(perf, "wickets"),
     Economy |-> Economy(GetOr(perf, "runs", 0), GetOr(perf, "overs", 0)),
     Dots |-> Get(perf, "dot_balls"),
     Fours |-> None,
     Sixes |-> None,
     NoBalls |-> Get(perf, "no_balls"),
     Wides |-> Get(perf, "wides")]

\* line 238: the entry gives a batting row
IsRvBatting(p) ==
    StartsWith(GetOr(p.perf, "__type", <<>>), <<"Batting">>) /\ p.team_is_lightcliffe

\* line 252: the entry gives a bowling row
IsRvBowling(p) ==
    /\ ~IsRvBatting(p)
    /\ StartsWith(GetOr(p.perf, "__type", <<>>), <<"Bowling">>)
    /\ ~p.team_is_lightcliffe

\* lines 212-221: player_id_to_full_name = {} stands inside the else branch,
\* so the name is bound only when the club is not in home_name
MappingIsBound(team1) == ~Contains(team_name, team1)

\* lines 190-272
results_vault_process_data(payload) ==
    LET team1 == GetOr(payload, "home_name", <<>>)
        team2 == GetOr(payload, "away_name", <<>>)
        team_number == TeamNumber(team1, team2)
        opposition == Opposition(team1, team2)
        teams == GetOr(payload, "MatchTeams", <<>>)
        members == AllMembers(teams)
        perfs == AllPerfs(teams)
        bat == SelectSeq(perfs, IsRvBatting)
        bowl == SelectSeq(perfs, IsRvBowling)
    IN  IF ~MappingIsBound(team1) /\ (members # <<>> \/ perfs # <<>>)
        THEN Raise("UnboundLocalError")
        ELSE Return(
               [i \in 1..Len(bat) |->
                  RvBattingRow(bat[i].perf, members, team_number, opposition)],
               [i \in 1..Len(bowl) |->
                  RvBowlingRow(bowl[i].perf, members, team_number, opposition)])

\* Dispatch taking shape A only for a non-empty Innings
DispatchByInnings(payload) ==
    IF "Match" \in DOMAIN payload /\ GetOr(payload, "Innings", <<>>) # <<>>
    THEN "nv_process_data"
    ELSE IF "MatchTeams" \in DOMAIN payload THEN "results_vault_process_data"
    ELSE "empty"

\* Dispatch taking shape A for a payload that has Match or Innings
DispatchInningsToo(payload) ==
    IF "Match" \in DOMAIN payload \/ "Innings" \in DOMAIN payload
    THEN "nv_process_data"
    ELSE IF "MatchTeams" \in DOMAIN payload THEN "results_vault_process_data"
    ELSE "empty"

\* lines 303-308: the branch process_data takes
Dispatch(payload) ==
    IF "Match" \in DOMAIN payload THEN "nv_process_data"
    ELSE IF "MatchTeams" \in DOMAIN payload THEN "results_vault_process_data"
    ELSE "empty"

\* lines 291-308
process_data(payload) ==
    CASE Dispatch(payload) = "nv_process_data" -> nv_process_data(payload)
      [] Dispatch(payload) = "results_vault_process_data" ->
             results_vault_process_data(payload)
      [] OTHER -> Return(<<>>, <<>>)


---------------------------------------------------------------------------
(* data_processing.py: SponsorDataProcessor                                *)

TopN == 6

Min(a, b) == IF a < b THEN a ELSE b

\* line 18: self.df[["Player Name", "Sponsor Name"]].dropna()
load_sponsor_data(csv) ==
    SelectSeq([i \in 1..Len(csv) |->
                 [PlayerName |-> Get(csv[i], "Player Name"),
                  SponsorName |-> Get(csv[i], "Sponsor Name")]],
              LAMBDA r : r.PlayerName # None /\ r.SponsorName # None)

\* StripMarkers leaving the dagger glyphs in place
RECURSIVE StripAsterisksOnly(_)
StripAsterisksOnly(name) ==
    IF name = <<>> THEN <<>>
    ELSE IF Head(name) = "*" THEN StripAsterisksOnly(Tail(name))
    ELSE <<Head(name)>> \o StripAsterisksOnly(Tail(name))

\* lines 21-22: .str.replace on one name removes every asterisk and every
\* dagger glyph (the token "dagger")
RECURSIVE StripMarkers(_)
StripMarkers(name) ==
    IF name = <<>> THEN <<>>
    ELSE IF Head(name) \in {"*", "dagger"} THEN StripMarkers(Tail(name))
    ELSE <<Head(name)>> \o StripMarkers(Tail(name))

\* lines 23-24: .replace("T Stead", "Ted Stead") on one name
Alias(name) == IF name = <<"T Stead">> THEN <<"Ted Stead">> ELSE name

\* lines 21-24 on a PlayerName cell; a missing name stays missing
NormalizeName(cell) ==
    IF cell = None THEN None ELSE Some(Alias(StripMarkers(cell[1])))

\* lines 21-24 on a frame
NormalizeNames(frame) ==
    [i \in 1..Len(frame) |->
        [frame[i] EXCEPT !.PlayerName = NormalizeName(frame[i].PlayerName)]]

\* lines 21-22 on a frame, before lines 23-24 ran
StripNames(frame) ==
    [i \in 1..Len(frame) |->
        [frame[i] EXCEPT !.PlayerName =
            IF @ = None THEN None ELSE Some(StripMarkers(@[1]))]]

\* Eligible with "Total" forgotten
EligibleButTotal(row) == row.PlayerName # Some(<<"Extras">>)

\* lines 27 and 35: ~isin(["Extras", "Total"])
Eligible(row) == row.PlayerName \notin {Some(<<"Extras">>), Some(<<"Total">>)}

\* one sort key: a comes strictly before b; a missing value (NaN) goes last
KeyBefore(a, b, ascending) ==
    /\ a # None
    /\ \/ b = None
       \/ IF ascending THEN a[1] < b[1] ELSE a[1] > b[1]

\* BattersBefore with Balls descending too
BattersBeforeBallsDescending(a, b) ==
    \/ KeyBefore(a.Runs, b.Runs, FALSE)
    \/ a.Runs = b.Runs /\ KeyBefore(a.Balls, b.Balls, FALSE)

\* line 28: sort_values(["Runs", "Balls"], ascending=[False, True])
BattersBefore(a, b) ==
    \/ KeyBefore(a.Runs, b.Runs, FALSE)
    \/ a.Runs = b.Runs /\ KeyBefore(a.Balls, b.Balls, TRUE)

\* line 36: sort_values(["Wickets", "Runs"], ascending=[False, True])
BowlersBefore(a, b) ==
    \/ KeyBefore(a.Wickets, b.Wickets, FALSE)
    \/ a.Wickets = b.Wickets /\ KeyBefore(a.Runs, b.Runs, TRUE)

\* the order of a sort: by is "batters" (line 28) or "bowlers" (line 36)
Before(a, b, by) ==
    IF by = "batters" THEN BattersBefore(a, b) ELSE BowlersBefore(a, b)

\* sort_values: rows with equal keys keep their order (stable)
RECURSIVE Insert(_, _, _)
Insert(row, sorted, by) ==
    IF sorted = <<>> THEN <<row>>
    ELSE IF Before(row, Head(sorted), by) THEN <<row>> \o sorted
    ELSE <<Head(sorted)>> \o Insert(row, Tail(sorted), by)

RECURSIVE SortValues(_, _)
SortValues(frame, by) ==
    IF frame = <<>> THEN <<>>
    ELSE Insert(frame[Len(frame)],
                SortValues(SubSeq(frame, 1, Len(frame) - 1), by), by)

\* .head(6)
HeadN(frame) == SubSeq(frame, 1, Min(TopN, Len(frame)))

\* lines 30-32 and 38-40: merge(self.result, left_on="PlayerName",
\* right_on="Player Name", how="left").drop(columns=["Player Name"]): one row
\* per roster entry with the row's name, in roster order; one row with a
\* missing sponsor when there is none
MergeRow(row, roster) ==
    LET hits == SelectSeq(roster, LAMBDA r : r.PlayerName = row.PlayerName)
    IN  IF hits = <<>> THEN <<row @@ ("Sponsor Name" :> None)>>
        ELSE [i \in 1..Len(hits) |-> row @@ ("Sponsor Name" :> hits[i].SponsorName)]

Merge(frame, roster) == Flatten([i \in 1..Len(frame) |-> MergeRow(frame[i], roster)])

BattingPlaceholder == <<"Available To Sponsor">>
BowlingPlaceholder == <<"Available to Sponsor">>

\* line 32: .fillna("Available To Sponsor") fills every missing cell of the row
FillNa(row, text) ==
    [k \in DOMAIN row |->
        IF k \in {"PlayerTeamName", "OppositionTeamName"} THEN row[k]
        ELSE IF row[k] = None THEN Some(text) ELSE row[k]]

\* FillSponsor writing the batting placeholder whatever text it is given
FillSponsorTitleCase(row, text) ==
    [row EXCEPT !["Sponsor Name"] =
        IF @ = None THEN Some(<<"Available To Sponsor">>) ELSE @]

\* line 41: top_6_bowlers["Sponsor Name"].fillna("Available to Sponsor")
FillSponsor(row, text) ==
    [row EXCEPT !["Sponsor Name"] = IF @ = None THEN Some(text) ELSE @]

\* lines 26-32
Top6Batters(frame, roster) ==
    LET ranked == HeadN(SortValues(SelectSeq(frame, Eligible), "batters"))
        merged == Merge(ranked, roster)
    IN  [i \in 1..Len(merged) |-> FillNa(merged[i], BattingPlaceholder)]

\* lines 34-41
Top6Bowlers(frame, roster) ==
    LET ranked == HeadN(SortValues(SelectSeq(frame, Eligible), "bowlers"))
        merged == Merge(ranked, roster)
    IN  [i \in 1..Len(merged) |-> FillSponsor(merged[i], BowlingPlaceholder)]

\* lines 20-43; a frame built from no rows has no PlayerName column, and
\* reading the column raises KeyError
data_wrangling(batting, bowling, roster) ==
    IF batting = <<>>
    THEN [error |-> "KeyError", batting_df |-> batting, bowling_df |-> bowling,
          top_6_batters |-> <<>>, top_6_bowlers |-> <<>>]
    ELSE IF bowling = <<>>
    THEN [error |-> "KeyError", batting_df |-> StripNames(batting),
          bowling_df |-> bowling, top_6_batters |-> <<>>, top_6_bowlers |-> <<>>]
    ELSE [error |-> "None",
          batting_df |-> NormalizeNames(batting),
          bowling_df |-> NormalizeNames(bowling),
          top_6_batters |-> Top6Batters(NormalizeNames(batting), roster),
          top_6_bowlers |-> Top6Bowlers(NormalizeNames(bowling), roster)]

---------------------------------------------------------------------------
(* image_generation.py: PerformanceImageGenerator                          *)

start_y == 374
end_y == 1289

\* lines 99 and 188: [int(start_y + i * (end_y - start_y) / (num_entries - 1))
\* for i in range(num_entries)], for num_entries other than 1; int() of a
\* positive quotient is its floor, and no division is evaluated for an empty
\* range
YPositions(num_entries) ==
    [k \in 1..num_entries |->
        start_y + ((k - 1) * (end_y - start_y)) \div (num_entries - 1)]

\* the outcome of lines 95-99 (184-188) for a table of num_entries rows: with
\* one row the divisor num_entries - 1 is 0 and the division raises
RowPositions(num_entries) ==
    IF num_entries = 1
    THEN [error |-> "ZeroDivisionError", y_positions |-> None]
    ELSE [error |-> "None", y_positions |-> Some(YPositions(num_entries))]

---------------------------------------------------------------------------
(* The dispatcher and the parsers applied to one payload                   *)

NoLog == [i \in {} |-> 0]

InitNorm ==
    /\ data \in Payloads
    /\ pc = "process_data"
    /\ called = "none"
    /\ ret = Return(<<>>, <<>>)
    /\ match_numbers = <<>> /\ api_header = None /\ idx = 0
    /\ rv_match_id = None
    /\ nv_calls = NoLog /\ map_calls = NoLog /\ rv_calls = NoLog /\ outcome = NoLog
    /\ nv_reply = NoLog /\ normalized = NoLog
    /\ all_batting_dfs = <<>> /\ all_bowling_dfs = <<>>
    /\ batting_df = <<>> /\ bowling_df = <<>> /\ df = <<>> /\ result = <<>>
    /\ top_6_batters = <<>> /\ top_6_bowlers = <<>>
    /\ y_positions = None
    /\ responses = <<>>
    /\ error = "None"

\* scraper.process_data(data)
ProcessData ==
    /\ pc = "process_data"
    /\ called' = Dispatch(data)
    /\ ret' = process_data(data)
    /\ pc' = IF process_data(data).err = "None" THEN "returned" ELSE "raised"
    /\ UNCHANGED <<mainVars, selVars, y_positions, responses, error>>

NextNorm == ProcessData

SpecNorm == InitNorm /\ [][NextNorm]_vars


---------------------------------------------------------------------------
(* Claims about the dispatcher and the parsers (SpecNorm)                  *)

Processed == pc \in {"returned", "raised"}

HasMatch == "Match" \in DOMAIN data
HasMatchTeams == "MatchTeams" \in DOMAIN data
HasInnings == GetOr(data, "Innings", <<>>) # <<>>

\* what a parser, named by the branch taken, gives for the payload
ResultOf(branch) ==
    CASE branch = "nv_process_data" -> nv_process_data(data)
      [] branch = "results_vault_process_data" -> results_vault_process_data(data)
      [] OTHER -> Return(<<>>, <<>>)

\* C3 as stated: Match with a non-empty Innings is parsed as shape A, otherwise
\* MatchTeams is parsed as shape B, otherwise the result is empty; so a payload
\* with Match, an empty Innings and MatchTeams gets parser B's result.
C3_DispatchByNonEmptyInnings ==
    Processed =>
        ret = ResultOf(IF HasMatch /\ HasInnings THEN "nv_process_data"
                       ELSE IF HasMatchTeams THEN "results_vault_process_data"
                       ELSE "empty")

\* C3 amended: the parser is chosen from the presence of the keys alone: a
\* payload with Match is parsed as shape A whatever its Innings, a payload
\* without Match but with MatchTeams as shape B, and any other payload gives
\* the empty result.
C3_DispatchByKeyPresence ==
    Processed =>
        /\ called = (IF HasMatch THEN "nv_process_data"
                     ELSE IF HasMatchTeams THEN "results_vault_process_data"
                     ELSE "empty")
        /\ ret = ResultOf(called)

\* C3 witness: a payload with Match, an empty Innings and a MatchTeams whose
\* entries parser B would turn into rows has been parsed as shape A.
C3_Witness ==
    /\ Processed /\ HasMatch /\ HasMatchTeams
    /\ "Innings" \in DOMAIN data /\ ~HasInnings
    /\ results_vault_process_data(data).batting # <<>>
    /\ called = "nv_process_data"
    /\ ret = Return(<<>>, <<>>)

\* C4: a payload with neither Match nor MatchTeams is processed without an
\* error and gives an empty batting and an empty bowling collection.
C4_NeitherKeyGivesEmpty ==
    (Processed /\ ~HasMatch /\ ~HasMatchTeams) =>
        /\ pc = "returned"
        /\ ret = Return(<<>>, <<>>)

\* C4 witness: a payload with a non-empty Innings but neither key was processed.
C4_Witness ==
    /\ pc = "returned" /\ ~HasMatch /\ ~HasMatchTeams /\ HasInnings
    /\ ret.batting = <<>> /\ ret.bowling = <<>>

\* the performance entries of a shape-B payload, by position
RvEntryIndex(payload) ==
    LET teams == GetOr(payload, "MatchTeams", <<>>)
    IN  {<<t, i, p>> \in (1..Len(teams)) \X (1..8) \X (1..8) :
            /\ i <= Len(GetOr(teams[t], "Innings", <<>>))
            /\ p <= Len(GetOr(GetOr(teams[t], "Innings", <<>>)[i], "PlayerPerfs", <<>>))}

RvEntry(payload, e) == payload["MatchTeams"][e[1]]["Innings"][e[2]]["PlayerPerfs"][e[3]]

RvEntryTeamIsClub(payload, e) ==
    Contains(team_name, GetOr(payload["MatchTeams"][e[1]], "team_name", <<>>))

\* C5: for a shape-B payload parser B gives one batting record per entry whose
\* type tag starts with "Batting" on a team whose name contains the club name,
\* one bowling record per entry whose tag starts with "Bowling" on any other
\* team, and nothing else.
C5_ParserBEmitsQualifyingEntries ==
    (Processed /\ called = "results_vault_process_data") =>
        /\ ret.err = "None"
        /\ Len(ret.batting) =
             Cardinality({e \in RvEntryIndex(data) :
                 /\ StartsWith(GetOr(RvEntry(data, e), "__type", <<>>), <<"Batting">>)
                 /\ RvEntryTeamIsClub(data, e)})
        /\ Len(ret.bowling) =
             Cardinality({e \in RvEntryIndex(data) :
                 /\ StartsWith(GetOr(RvEntry(data, e), "__type", <<>>), <<"Bowling">>)
                 /\ ~RvEntryTeamIsClub(data, e)})

\* the entries of a shape-B payload that give a bowling record, in payload order
RvBowlingEntries(payload) ==
    SelectSeq(AllPerfs(GetOr(payload, "MatchTeams", <<>>)),
              LAMBDA p : /\ StartsWith(GetOr(p.perf, "__type", <<>>), <<"Bowling">>)
                         /\ ~p.team_is_lightcliffe)

\* e (in hundredths) is runs / overs rounded to 2 decimals: no other multiple
\* of 0.01 is nearer to the quotient
IsRoundedQuotient(e, runs, overs) ==
    /\ 2 * (e * overs - 100 * runs) <= overs
    /\ 2 * (100 * runs - e * overs) <= overs

\* C12: every bowling record parser B emits for an entry with overs > 0 has
\* Economy = runs / overs rounded to 2 decimals, every record for an entry
\* whose overs is 0 or missing has no Economy, and parser B never ends in a
\* division by zero.
C12_EconomyGuarded ==
    (Processed /\ called = "results_vault_process_data") =>
        /\ ret.err # "ZeroDivisionError"
        /\ ret.err = "None" =>
              /\ Len(ret.bowling) = Len(RvBowlingEntries(data))
              /\ \A i \in 1..Len(ret.bowling) :
                    LET perf == RvBowlingEntries(data)[i].perf
                        row == ret.bowling[i]
                    IN  IF "overs" \in DOMAIN perf /\ perf["overs"] > 0
                        THEN /\ row.Economy # None
                             /\ IsRoundedQuotient(row.Economy[1],
                                                  GetOr(perf, "runs", 0), perf["overs"])
                        ELSE row.Economy = None

\* C12 witness: parser B emitted a bowling record for an entry with overs = 0,
\* one for an entry without overs, and one whose quotient 29 / 8 = 3.625 lies
\* between two hundredths and was rounded to 3.62.
C12_Witness ==
    /\ pc = "returned" /\ called = "results_vault_process_data"
    /\ \E i, j, k \in 1..Len(ret.bowling) :
          /\ GetOr(RvBowlingEntries(data)[i].perf, "overs", 1) = 0
          /\ ret.bowling[i].Economy = None
          /\ "overs" \notin DOMAIN RvBowlingEntries(data)[j].perf
          /\ ret.bowling[j].Economy = None
          /\ ret.bowling[k].Overs = Some(8) /\ ret.bowling[k].Runs = Some(29)
          /\ ret.bowling[k].Economy = Some(362)

\* the entries of a shape-B payload that give a batting record, in payload order
RvBattingEntries(payload) ==
    SelectSeq(AllPerfs(GetOr(payload, "MatchTeams", <<>>)),
              LAMBDA p : /\ StartsWith(GetOr(p.perf, "__type", <<>>), <<"Batting">>)
                         /\ p.team_is_lightcliffe)

\* the display names the rosters of all teams register for a player id
RosterNames(payload, id) ==
    LET members == AllMembers(GetOr(payload, "MatchTeams", <<>>))
    IN  {Get(members[k], "player_name2") :
            k \in {j \in 1..Len(members) : Some(members[j]["player_id"]) = id}}

\* the record's name is a roster name of the entry's player id, or the entry's
\* own player_name when no roster has the id
NameFromRoster(payload, perf, row) ==
    IF RosterNames(payload, Get(perf, "player_id")) # {}
    THEN row.PlayerName \in RosterNames(payload, Get(perf, "player_id"))
    ELSE row.PlayerName = Get(perf, "player_name")

\* C15: parser B completes without error for every shape-B payload, whether
\* the club is home_name or away_name, and every record it emits is named from
\* the rosters of all teams: by the display name registered for the entry's
\* player id, or by the entry's own player_name when no roster has the id.
C15_RosterNamesForEveryFixture ==
    (Processed /\ called = "results_vault_process_data") =>
        /\ ret.err = "None"
        /\ Len(ret.batting) = Len(RvBattingEntries(data))
        /\ Len(ret.bowling) = Len(RvBowlingEntries(data))
        /\ \A i \in 1..Len(ret.batting) :
              NameFromRoster(data, RvBattingEntries(data)[i].perf, ret.batting[i])
        /\ \A i \in 1..Len(ret.bowling) :
              NameFromRoster(data, RvBowlingEntries(data)[i].perf, ret.bowling[i])

\* the two team labels of the payload, as the parser that was called reads them
FirstLabel ==
    IF called = "nv_process_data"
    THEN GetOr(GetOr(data, "Match", <<>>), "Team1Name", <<>>)
    ELSE GetOr(data, "home_name", <<>>)

SecondLabel ==
    IF called = "nv_process_data"
    THEN GetOr(GetOr(data, "Match", <<>>), "Team2Name", <<>>)
    ELSE GetOr(data, "away_name", <<>>)

\* t is s without its leading and trailing blanks
IsTrimOf(s, t) ==
    /\ t = <<>> \/ (t[1] # " " /\ t[Len(t)] # " ")
    /\ \E a \in 0..(Len(s) - Len(t)) :
          /\ SubSeq(s, a + 1, a + Len(t)) = t
          /\ \A j \in 1..Len(s) : (j <= a \/ j > a + Len(t)) => s[j] = " "

\* t is the label with the club name cut out and the rest trimmed
IsLabelWithoutClub(label, t) ==
    \E k \in 0..(Len(label) - Len(team_name)) :
        /\ SubSeq(label, k + 1, k + Len(team_name)) = team_name
        /\ IsTrimOf(SubSeq(label, 1, k)
                      \o SubSeq(label, k + Len(team_name) + 1, Len(label)), t)

\* C16: when one of the two team labels contains the club name, every record
\* of either parser has PlayerTeamName = that label with the club name removed
\* and the rest trimmed, and OppositionTeamName = the other label in full,
\* whichever of the two sides is listed first.
C16_TeamLabels ==
    (pc = "returned" /\ called \in {"nv_process_data", "results_vault_process_data"}
       /\ Contains(team_name, FirstLabel) # Contains(team_name, SecondLabel)) =>
        LET club == IF Contains(team_name, FirstLabel) THEN FirstLabel ELSE SecondLabel
            other == IF Contains(team_name, FirstLabel) THEN SecondLabel ELSE FirstLabel
        IN  /\ \A i \in 1..Len(ret.batting) :
                  /\ IsLabelWithoutClub(club, ret.batting[i].PlayerTeamName)
                  /\ ret.batting[i].OppositionTeamName = other
            /\ \A i \in 1..Len(ret.bowling) :
                  /\ IsLabelWithoutClub(club, ret.bowling[i].PlayerTeamName)
                  /\ ret.bowling[i].OppositionTeamName = other

\* C16 witness: parser A emitted batting and bowling records for a payload
\* whose second-listed side is the club, labelled "1st XI" against "Opp CC".
C16_Witness ==
    /\ pc = "returned" /\ called = "nv_process_data"
    /\ FirstLabel = OppLabel /\ SecondLabel = ClubFirst
    /\ ret.batting # <<>> /\ ret.bowling # <<>>
    /\ ret.batting[1].PlayerTeamName = <<"1st", " ", "XI">>
    /\ ret.batting[1].OppositionTeamName = <<"Opp", " ", "CC">>
    /\ ret.bowling[1].PlayerTeamName = <<"1st", " ", "XI">>
    /\ ret.bowling[1].OppositionTeamName = <<"Opp", " ", "CC">>

\* the card entries of a shape-A payload, by position, for the innings that are
\* (club = TRUE) or are not (club = FALSE) the club's batting innings
NvEntryIndex(payload, card, club) ==
    LET inns == GetOr(payload, "Innings", <<>>)
        match == GetOr(payload, "Match", <<>>)
        label == team_name \o <<" ">> \o
                   TeamNumber(GetOr(match, "Team1Name", <<>>),
                              GetOr(match, "Team2Name", <<>>))
    IN  {<<i, j>> \in (1..Len(inns)) \X (1..8) :
            /\ j <= Len(GetOr(inns[i], card, <<>>))
            /\ club = ("BattingTeamName" \in DOMAIN inns[i]
                         /\ inns[i]["BattingTeamName"] = label)}

\* C6: for a shape-A payload the number of batting records equals the number of
\* batting-card entries of the innings whose BattingTeamName is
\* "{club name} {team number}", and the number of bowling records equals the
\* number of bowling-card entries of all other innings.
C6_ParserAKeepsEveryEntry ==
    (Processed /\ called = "nv_process_data") =>
        /\ ret.err = "None"
        /\ Len(ret.batting) = Cardinality(NvEntryIndex(data, "BattingCard", TRUE))
        /\ Len(ret.bowling) = Cardinality(NvEntryIndex(data, "BowlingCard", FALSE))

\* C6 witness: a payload with a club innings and another innings was parsed
\* and gave both batting and bowling records.
C6_Witness ==
    /\ pc = "returned" /\ called = "nv_process_data"
    /\ Len(ret.batting) >= 3 /\ Len(ret.bowling) >= 2
    /\ Cardinality(NvEntryIndex(data, "BowlingCard", TRUE)) >= 1


---------------------------------------------------------------------------
(* The selector applied to season tables (SpecSel)                         *)

InitSel ==
    /\ \E mask \in SUBSET (1..MaxRows), other \in BOOLEAN :
          /\ batting_df = PickRows(BattingMaster, MaxRows, mask)
          /\ bowling_df = PickRows(BowlingMaster, MaxRows,
                                   IF other THEN (1..MaxRows) \ mask ELSE mask)
    /\ pc = "load_sponsor_data"
    /\ df = <<>> /\ result = <<>>
    /\ top_6_batters = <<>> /\ top_6_bowlers = <<>>
    /\ y_positions = None
    /\ responses = <<>>
    /\ error = "None"
    /\ data = <<>> /\ called = "none" /\ ret = Return(<<>>, <<>>)
    /\ match_numbers = <<>> /\ api_header = None /\ idx = 0
    /\ rv_match_id = None
    /\ nv_calls = NoLog /\ map_calls = NoLog /\ rv_calls = NoLog /\ outcome = NoLog
    /\ nv_reply = NoLog /\ normalized = NoLog
    /\ all_batting_dfs = <<>> /\ all_bowling_dfs = <<>>

\* sponsor_data_processor.load_sponsor_data(): the sheet is read, or the read
\* fails and the process exits
LoadSponsorData ==
    /\ pc = "load_sponsor_data"
    /\ \/ \E csv \in SponsorCsvs :
             /\ df' = csv
             /\ result' = load_sponsor_data(csv)
             /\ pc' = "data_wrangling"
             /\ error' = error
       \/ /\ pc' = "exited"
          /\ error' = "SystemExit"
          /\ UNCHANGED <<df, result>>
    /\ UNCHANGED <<mainVars, called, ret, batting_df, bowling_df, top_6_batters,
                   top_6_bowlers, y_positions, responses>>

\* sponsor_data_processor.data_wrangling()
DataWrangling ==
    /\ pc = "data_wrangling"
    /\ LET r == data_wrangling(batting_df, bowling_df, result)
       IN  /\ batting_df' = r.batting_df
           /\ bowling_df' = r.bowling_df
           /\ top_6_batters' = r.top_6_batters
           /\ top_6_bowlers' = r.top_6_bowlers
           /\ error' = r.error
           /\ pc' = IF r.error = "None" THEN "ranked" ELSE "crashed"
    /\ UNCHANGED <<mainVars, called, ret, df, result, y_positions, responses>>

\* performance_generator.generate_batting_image(): the template cannot be
\* opened and the method returns (lines 86-90), or the row positions are
\* computed and the rows drawn at them
GenerateBattingImage ==
    /\ pc = "ranked"
    /\ \/ /\ y_positions' = None
          /\ pc' = "batting_image_done"
          /\ error' = error
       \/ LET r == RowPositions(Len(top_6_batters))
          IN  /\ y_positions' = r.y_positions
              /\ error' = IF r.error = "None" THEN error ELSE r.error
              /\ pc' = IF r.error = "None" THEN "batting_image_done" ELSE "crashed"
    /\ UNCHANGED <<mainVars, selVars, called, ret, responses>>

\* performance_generator.generate_bowling_image(), lines 175-188
GenerateBowlingImage ==
    /\ pc = "batting_image_done"
    /\ \/ /\ y_positions' = None
          /\ pc' = "bowling_image_done"
          /\ error' = error
       \/ LET r == RowPositions(Len(top_6_bowlers))
          IN  /\ y_positions' = r.y_positions
              /\ error' = IF r.error = "None" THEN error ELSE r.error
              /\ pc' = IF r.error = "None" THEN "bowling_image_done" ELSE "crashed"
    /\ UNCHANGED <<mainVars, selVars, called, ret, responses>>

NextSel ==
    \/ LoadSponsorData
    \/ DataWrangling
    \/ GenerateBattingImage
    \/ GenerateBowlingImage

SpecSel == InitSel /\ [][NextSel]_vars


---------------------------------------------------------------------------
(* Claims about the selector (SpecSel)                                     *)

Ranked == pc = "ranked"

IsPlayer(row) == row.PlayerName \notin {Some(<<"Extras">>), Some(<<"Total">>)}

\* the number of rows of a name-normalized table that are real players
PlayerCount(frame) == Cardinality({i \in 1..Len(frame) : IsPlayer(frame[i])})

\* C7: each output of the selector has at most 6 rows, and when the input has
\* fewer than 6 eligible rows the output has exactly that many rows.
C7_AtMostSixNoPadding ==
    Ranked =>
        /\ Len(top_6_batters) <= 6
        /\ Len(top_6_bowlers) <= 6
        /\ PlayerCount(batting_df) < 6 => Len(top_6_batters) = PlayerCount(batting_df)
        /\ PlayerCount(bowling_df) < 6 => Len(top_6_bowlers) = PlayerCount(bowling_df)

\* C8: no row named "Extras" or "Total" is in either output of the selector.
C8_NoExtrasNoTotal ==
    /\ \A i \in 1..Len(top_6_batters) : IsPlayer(top_6_batters[i])
    /\ \A i \in 1..Len(top_6_bowlers) : IsPlayer(top_6_bowlers[i])

\* C8 witness: the selector ran on tables where an Extras row has more Runs and
\* a Total row more Wickets than every selected row.
C8_Witness ==
    /\ Ranked
    /\ top_6_batters # <<>> /\ top_6_bowlers # <<>>
    /\ \E i \in 1..Len(batting_df) :
          /\ batting_df[i].PlayerName = Some(<<"Extras">>)
          /\ \A j \in 1..Len(top_6_batters) :
                batting_df[i].Runs[1] > top_6_batters[j].Runs[1]
    /\ \E i \in 1..Len(bowling_df) :
          /\ bowling_df[i].PlayerName = Some(<<"Total">>)
          /\ \A j \in 1..Len(top_6_bowlers) :
                bowling_df[i].Wickets[1] > top_6_bowlers[j].Wickets[1]

\* a ranks strictly ahead of b: more Runs, or equal Runs and fewer Balls
BatterAhead(a, b) ==
    \/ a.Runs[1] > b.Runs[1]
    \/ a.Runs[1] = b.Runs[1] /\ a.Balls[1] < b.Balls[1]

\* a ranks strictly ahead of b: more Wickets, or equal Wickets and fewer Runs
BowlerAhead(a, b) ==
    \/ a.Wickets[1] > b.Wickets[1]
    \/ a.Wickets[1] = b.Wickets[1] /\ a.Runs[1] < b.Runs[1]

SameBatter(a, b) ==
    a.PlayerName = b.PlayerName /\ a.Runs = b.Runs /\ a.Balls = b.Balls

SameBowler(a, b) ==
    a.PlayerName = b.PlayerName /\ a.Wickets = b.Wickets /\ a.Runs = b.Runs

\* C9: the batting output is in the order Runs descending, then Balls
\* ascending, and every eligible record that ranks ahead of a selected one is
\* selected too; the same for bowling with Wickets descending, Runs ascending.
C9_RankedTopSix ==
    Ranked =>
        /\ \A i, j \in 1..Len(top_6_batters) :
              i < j => ~BatterAhead(top_6_batters[j], top_6_batters[i])
        /\ \A i \in {k \in 1..Len(batting_df) : IsPlayer(batting_df[k])} :
              (\E j \in 1..Len(top_6_batters) :
                  BatterAhead(batting_df[i], top_6_batters[j]))
              => \E j \in 1..Len(top_6_batters) :
                    SameBatter(batting_df[i], top_6_batters[j])
        /\ \A i, j \in 1..Len(top_6_bowlers) :
              i < j => ~BowlerAhead(top_6_bowlers[j], top_6_bowlers[i])
        /\ \A i \in {k \in 1..Len(bowling_df) : IsPlayer(bowling_df[k])} :
              (\E j \in 1..Len(top_6_bowlers) :
                  BowlerAhead(bowling_df[i], top_6_bowlers[j]))
              => \E j \in 1..Len(top_6_bowlers) :
                    SameBowler(bowling_df[i], top_6_bowlers[j])

\* C9 witness: more than 6 eligible records in each table, so some are left
\* out, and selected records tied on the first key and split by the second.
C9_Witness ==
    /\ Ranked
    /\ PlayerCount(batting_df) > 6 /\ PlayerCount(bowling_df) > 6
    /\ \E i \in 1..(Len(top_6_batters) - 1) :
          /\ top_6_batters[i].Runs = top_6_batters[i + 1].Runs
          /\ top_6_batters[i].Balls[1] < top_6_batters[i + 1].Balls[1]
    /\ \E i \in 1..(Len(top_6_bowlers) - 1) :
          /\ top_6_bowlers[i].Wickets = top_6_bowlers[i + 1].Wickets
          /\ top_6_bowlers[i].Runs[1] < top_6_bowlers[i + 1].Runs[1]

\* the sponsors the roster gives for a name
SponsorsOf(name) ==
    {result[j].SponsorName : j \in {k \in 1..Len(result) : result[k].PlayerName = name}}

\* C10: a selected record whose name is in the roster carries a sponsor the
\* roster gives for that name, and a selected record whose name is not in the
\* roster carries "Available To Sponsor" (batting) or "Available to Sponsor"
\* (bowling).
C10_SponsorJoin ==
    Ranked =>
        /\ \A i \in 1..Len(top_6_batters) :
              LET row == top_6_batters[i]
              IN  IF SponsorsOf(row.PlayerName) # {}
                  THEN row["Sponsor Name"] \in SponsorsOf(row.PlayerName)
                  ELSE row["Sponsor Name"] = Some(<<"Available To Sponsor">>)
        /\ \A i \in 1..Len(top_6_bowlers) :
              LET row == top_6_bowlers[i]
              IN  IF SponsorsOf(row.PlayerName) # {}
                  THEN row["Sponsor Name"] \in SponsorsOf(row.PlayerName)
                  ELSE row["Sponsor Name"] = Some(<<"Available to Sponsor">>)

\* C10 witness: both outputs hold a record with a roster sponsor (one of them
\* found through the alias "Ted Stead") and a record with the placeholder.
C10_Witness ==
    /\ Ranked
    /\ \E i, j \in 1..Len(top_6_batters) :
          /\ top_6_batters[i].PlayerName = Some(<<"Ted Stead">>)
          /\ top_6_batters[i]["Sponsor Name"] = Some(<<"Bolt">>)
          /\ top_6_batters[j]["Sponsor Name"] = Some(<<"Available To Sponsor">>)
    /\ \E i, j \in 1..Len(top_6_bowlers) :
          /\ top_6_bowlers[i].PlayerName = Some(<<"A Smith">>)
          /\ top_6_bowlers[i]["Sponsor Name"] = Some(<<"Acme">>)
          /\ top_6_bowlers[j]["Sponsor Name"] = Some(<<"Available to Sponsor">>)


\* the positions in a season table of the record an output row was made from
BatterSource(row) ==
    {p \in 1..Len(batting_df) : SameBatter(batting_df[p], row)}

BowlerSource(row) ==
    {p \in 1..Len(bowling_df) : SameBowler(bowling_df[p], row)}

\* C17: each output has exactly the rows of the ranked top 6 (as many as there
\* are eligible records, at most 6: the sponsor join adds and drops none), in
\* ranking order, and output rows tied on both sort keys stand in the order
\* their records have in the season table.
C17_OutputInRankingOrder ==
    Ranked =>
        /\ Len(top_6_batters) = Min(6, PlayerCount(batting_df))
        /\ Len(top_6_bowlers) = Min(6, PlayerCount(bowling_df))
        /\ \A i, j \in 1..Len(top_6_batters) :
              i < j =>
                  /\ ~BatterAhead(top_6_batters[j], top_6_batters[i])
                  /\ ~BatterAhead(top_6_batters[i], top_6_batters[j]) =>
                        \A p \in BatterSource(top_6_batters[i]),
                           q \in BatterSource(top_6_batters[j]) : p < q
        /\ \A i, j \in 1..Len(top_6_bowlers) :
              i < j =>
                  /\ ~BowlerAhead(top_6_bowlers[j], top_6_bowlers[i])
                  /\ ~BowlerAhead(top_6_bowlers[i], top_6_bowlers[j]) =>
                        \A p \in BowlerSource(top_6_bowlers[i]),
                           q \in BowlerSource(top_6_bowlers[j]) : p < q

\* the positions ys for n rows: none for no row, one fixed position between
\* the bounds for one row, and for more rows a strictly increasing run from the
\* upper bound 374 to the lower bound 1289 in equal steps (equal up to the
\* truncation to whole pixels)
PositionsAsSpecified(ys, n) ==
    /\ Len(ys) = n
    /\ n = 1 => (ys[1] >= 374 /\ ys[1] <= 1289)
    /\ n >= 2 =>
          /\ ys[1] = 374 /\ ys[n] = 1289
          /\ \A k \in 1..(n - 1) : ys[k] < ys[k + 1]
          /\ \A k, l \in 1..(n - 1) :
                (ys[k + 1] - ys[k]) - (ys[l + 1] - ys[l]) \in {-1, 0, 1}

\* C18: neither image method ends in a division by zero, whatever the number
\* of rows of its table, and the positions it computes are as specified: a
\* fixed single position for one row, an even spread from 374 to 1289 for two
\* or more.
C18_RowPositions ==
    /\ error # "ZeroDivisionError"
    /\ (pc = "batting_image_done" /\ y_positions # None) =>
          PositionsAsSpecified(y_positions[1], Len(top_6_batters))
    /\ (pc = "bowling_image_done" /\ y_positions # None) =>
          PositionsAsSpecified(y_positions[1], Len(top_6_bowlers))

\* the name has neither an asterisk nor a dagger
NoMarker(cell) ==
    cell = None \/ \A k \in 1..Len(cell[1]) : cell[1][k] \notin {"*", "dagger"}

\* after is what the name before must become: "Ted Stead" when before is
\* "T Stead" with or without markers, otherwise before without its markers
IsNormalizedFrom(before, after) ==
    IF before = None THEN after = None
    ELSE LET bare == SelectSeq(before[1], LAMBDA t : t \notin {"*", "dagger"})
         IN  after = Some(IF bare = <<"T Stead">> THEN <<"Ted Stead">> ELSE bare)

\* C19: a completed data_wrangling leaves in both tables, row by row, the
\* name the row had with its markers removed, and "Ted Stead" for "T Stead";
\* no name of the tables or of the outputs has a marker or is "T Stead", so
\* exclusion, ranking and join saw normalized names; normalizing the tables
\* once more changes nothing.
C19_NamesNormalized ==
    [][(pc = "data_wrangling" /\ pc' = "ranked") =>
          /\ Len(batting_df') = Len(batting_df)
          /\ Len(bowling_df') = Len(bowling_df)
          /\ \A i \in 1..Len(batting_df) :
                /\ IsNormalizedFrom(batting_df[i].PlayerName, batting_df'[i].PlayerName)
                /\ NoMarker(batting_df'[i].PlayerName)
          /\ \A i \in 1..Len(bowling_df) :
                /\ IsNormalizedFrom(bowling_df[i].PlayerName, bowling_df'[i].PlayerName)
                /\ NoMarker(bowling_df'[i].PlayerName)
          /\ \A i \in 1..Len(top_6_batters') :
                /\ NoMarker(top_6_batters'[i].PlayerName)
                /\ top_6_batters'[i].PlayerName # Some(<<"T Stead">>)
          /\ \A i \in 1..Len(top_6_bowlers') :
                /\ NoMarker(top_6_bowlers'[i].PlayerName)
                /\ top_6_bowlers'[i].PlayerName # Some(<<"T Stead">>)
          /\ NormalizeNames(batting_df') = batting_df'
          /\ NormalizeNames(bowling_df') = bowling_df'
      ]_vars

\* C19 witness: data_wrangling completed on a batting table that had
\* "A Smith*", "B Jones" with a dagger and "T Stead", and a bowling table that
\* had "T Stead" with a dagger; the outputs hold them as "A Smith", "B Jones"
\* and "Ted Stead".
C19_Witness ==
    /\ Ranked
    /\ \E i, j, k \in 1..Len(top_6_batters) :
          /\ top_6_batters[i].PlayerName = Some(<<"A Smith">>)
          /\ top_6_batters[i].Runs = Some(50)
          /\ top_6_batters[j].PlayerName = Some(<<"B Jones">>)
          /\ top_6_batters[k].PlayerName = Some(<<"Ted Stead">>)
    /\ \E i \in 1..Len(top_6_bowlers) :
          /\ top_6_bowlers[i].PlayerName = Some(<<"Ted Stead">>)
          /\ top_6_bowlers[i].Wickets = Some(3)

\* the output row has, besides the sponsor, the fields of the table row with
\* their values, a missing value still missing
SameButSponsor(row, out) ==
    /\ DOMAIN out = DOMAIN row \cup {"Sponsor Name"}
    /\ \A k \in DOMAIN row : IF row[k] = None THEN out[k] = None ELSE out[k] = row[k]

\* C20: every row of either output is a row of the (name-normalized) season
\* table with the sponsor added and nothing else changed: each other field has
\* the table's value, and a field missing in the table is missing in the
\* output.
C20_JoinOnlyAddsSponsor ==
    Ranked =>
        /\ \A i \in 1..Len(top_6_batters) :
              \E p \in 1..Len(batting_df) :
                  /\ batting_df[p].PlayerName = top_6_batters[i].PlayerName
                  /\ batting_df[p].Runs = top_6_batters[i].Runs
                  /\ SameButSponsor(batting_df[p], top_6_batters[i])
        /\ \A i \in 1..Len(top_6_bowlers) :
              \E p \in 1..Len(bowling_df) :
                  /\ bowling_df[p].PlayerName = top_6_bowlers[i].PlayerName
                  /\ bowling_df[p].Wickets = top_6_bowlers[i].Wickets
                  /\ SameButSponsor(bowling_df[p], top_6_bowlers[i])

---------------------------------------------------------------------------
(* main.py: the fetch loop, the concatenation and the selector stage (Spec) *)

\* what the NV endpoint can answer with: response.json() of lines 71-73
NvBodies ==
    {<<>>,
     "Innings" :> <<CHOOSE x \in NvInnings : x.BattingTeamName = OppLabel>>,
     "Match" :> [Team1Name |-> ClubFirst, Team2Name |-> OppLabel],
     ("Match" :> [Team1Name |-> ClubFirst, Team2Name |-> OppLabel])
        @@ ("Innings" :> <<>>),
     ("Match" :> [Team1Name |-> ClubFirst, Team2Name |-> OppLabel])
        @@ ("Innings" :> <<CHOOSE x \in NvInnings : "BowlingCard" \in DOMAIN x
                                                    /\ x.BattingTeamName = ClubFirst,
                           CHOOSE x \in NvInnings : x.BattingTeamName = OppLabel>>),
     ("Match" :> [Team1Name |-> OppLabel, Team2Name |-> ClubFirst])
        @@ ("Innings" :> <<CHOOSE x \in NvInnings : x.BattingTeamName = OppLabel>>)}

\* what the mapping endpoint can answer with: response.json() of line 95
MapBodies == {<<>>, "object_id1" :> 7}

\* what the Results Vault endpoint can answer with: response.json() of line 127
RvBodies ==
    {<<>>,
     [home_name |-> OppLabel, away_name |-> ClubFirst],
     ("MatchTeams" :> <<>>) @@ [home_name |-> ClubFirst, away_name |-> OppLabel],
     ("MatchTeams" :> <<CHOOSE x \in RvTeams : "TeamMembers" \in DOMAIN x
                                               /\ x.team_name = ClubFirst,
                        CHOOSE x \in RvTeams : "TeamMembers" \in DOMAIN x
                                               /\ x.team_name = OppLabel>>)
        @@ [home_name |-> OppLabel, away_name |-> ClubFirst],
     ("MatchTeams" :> <<CHOOSE x \in RvTeams : "TeamMembers" \in DOMAIN x
                                               /\ x.team_name = ClubFirst,
                        CHOOSE x \in RvTeams : "TeamMembers" \in DOMAIN x
                                               /\ x.team_name = OppLabel>>)
        @@ [home_name |-> ClubFirst, away_name |-> OppLabel]}

\* a request ends in an exception (raise_for_status, a connection error, bad
\* JSON) or in a body
Replies(bodies) == {[raised |-> TRUE]} \cup {[raised |-> FALSE, body |-> b] : b \in bodies}

\* NvAccepted with the test of Innings inverted
NvAcceptedInverted(body) ==
    /\ body # <<>>
    /\ "Match" \in DOMAIN body
    /\ GetOr(body, "Innings", <<>>) = <<>>

\* lines 42-45: the NV body passes main's checks
NvAccepted(body) ==
    /\ body # <<>>
    /\ "Match" \in DOMAIN body
    /\ GetOr(body, "Innings", <<>>) # <<>>

\* lines 49-50: the Results Vault body passes main's check
RvAccepted(body) == body # <<>> /\ "MatchTeams" \in DOMAIN body

\* the Runs of all rows of the given name, added up
RECURSIVE SumRuns(_, _)
SumRuns(rows, name) ==
    IF rows = <<>> THEN 0
    ELSE (IF Head(rows).PlayerName = name /\ Head(rows).Runs # None
          THEN Head(rows).Runs[1] ELSE 0) + SumRuns(Tail(rows), name)

\* concat giving every row the season total of its player's Runs
concatSeasonTotals(dfs) ==
    LET rows == Flatten(dfs)
    IN  [i \in 1..Len(rows) |->
           [rows[i] EXCEPT !.Runs = Some(SumRuns(rows, rows[i].PlayerName))]]

\* lines 60 and 62: pd.concat(frames, ignore_index=True), the rows of the
\* per-match frames one after the other
concat(dfs) == Flatten(dfs)

Init ==
    /\ \E n \in 0..MaxMatches : match_numbers = [i \in 1..n |-> i]
    /\ api_header = None
    /\ idx = 0
    /\ pc = "get_header"
    /\ data = <<>>
    /\ rv_match_id = None
    /\ nv_calls = [i \in 1..Len(match_numbers) |-> 0]
    /\ map_calls = [i \in 1..Len(match_numbers) |-> 0]
    /\ rv_calls = [i \in 1..Len(match_numbers) |-> 0]
    /\ outcome = [i \in 1..Len(match_numbers) |-> "pending"]
    /\ nv_reply = [i \in 1..Len(match_numbers) |-> [raised |-> TRUE]]
    /\ normalized = [i \in 1..Len(match_numbers) |-> None]
    /\ called = "none"
    /\ ret = Return(<<>>, <<>>)
    /\ all_batting_dfs = <<>> /\ all_bowling_dfs = <<>>
    /\ batting_df = <<>> /\ bowling_df = <<>> /\ df = <<>> /\ result = <<>>
    /\ top_6_batters = <<>> /\ top_6_bowlers = <<>>
    /\ y_positions = None
    /\ responses = <<>>
    /\ error = "None"

\* line 34: match_numbers[0] raises IndexError on an empty list; otherwise the
\* probe returns a header value or None
GetHeader ==
    /\ pc = "get_header"
    /\ IF match_numbers = <<>>
       THEN /\ pc' = "crashed"
            /\ error' = "IndexError"
            /\ UNCHANGED <<api_header, idx>>
       ELSE /\ \E h \in {None, Some("token")} : api_header' = h
            /\ idx' = 1
            /\ pc' = "nv_api_call"
            /\ error' = error
    /\ UNCHANGED <<match_numbers, data, rv_match_id, nv_calls, map_calls, rv_calls,
                   outcome, nv_reply, normalized, all_batting_dfs, all_bowling_dfs,
                   selVars, y_positions, responses, called, ret>>

\* lines 38 and 58: the for loop takes the next match number, or ends
LoopNext == IF idx < Len(match_numbers) THEN "nv_api_call" ELSE "concat"

\* lines 40-46: the NV request and main's checks of its body
NvApiCall ==
    /\ pc = "nv_api_call"
    /\ \E reply \in Replies(NvBodies) :
          /\ nv_calls' = [nv_calls EXCEPT ![idx] = @ + 1]
          /\ nv_reply' = [nv_reply EXCEPT ![idx] = reply]
          /\ IF ~reply.raised /\ NvAccepted(reply.body)
             THEN /\ data' = reply.body
                  /\ outcome' = [outcome EXCEPT ![idx] = "fetched"]
                  /\ pc' = "normalize"
             ELSE /\ data' = IF reply.raised THEN data ELSE reply.body
                  /\ outcome' = outcome
                  /\ pc' = "rv_mapping"
    /\ UNCHANGED <<match_numbers, api_header, idx, rv_match_id, map_calls, rv_calls,
                   normalized, all_batting_dfs, all_bowling_dfs, selVars, called,
                   ret, y_positions, responses, error>>

\* lines 47-48, 112 and 51-53: the mapping request of results_vault_api_call;
\* an exception is caught by main, which goes on with the next match
RvMapping ==
    /\ pc = "rv_mapping"
    /\ \E reply \in Replies(MapBodies) :
          /\ map_calls' = [map_calls EXCEPT ![idx] = @ + 1]
          /\ IF reply.raised
             THEN /\ outcome' = [outcome EXCEPT ![idx] = "skipped"]
                  /\ idx' = idx + 1
                  /\ pc' = LoopNext
                  /\ rv_match_id' = rv_match_id
             ELSE /\ rv_match_id' = Get(reply.body, "object_id1")
                  /\ pc' = "rv_request"
                  /\ UNCHANGED <<outcome, idx>>
    /\ UNCHANGED <<match_numbers, api_header, data, nv_calls, rv_calls, nv_reply,
                   normalized, all_batting_dfs, all_bowling_dfs, selVars, called,
                   ret, y_positions, responses, error>>

\* lines 113-127 and 48-53: the scorecard request of results_vault_api_call
\* and main's check of its body
RvRequest ==
    /\ pc = "rv_request"
    /\ \E reply \in Replies(RvBodies) :
          /\ rv_calls' = [rv_calls EXCEPT ![idx] = @ + 1]
          /\ IF ~reply.raised /\ RvAccepted(reply.body)
             THEN /\ data' = reply.body
                  /\ outcome' = [outcome EXCEPT ![idx] = "fetched"]
                  /\ pc' = "normalize"
                  /\ idx' = idx
             ELSE /\ data' = IF reply.raised THEN data ELSE reply.body
                  /\ outcome' = [outcome EXCEPT ![idx] = "skipped"]
                  /\ idx' = idx + 1
                  /\ pc' = LoopNext
    /\ UNCHANGED <<match_numbers, api_header, rv_match_id, nv_calls, map_calls,
                   nv_reply, normalized, all_batting_dfs, all_bowling_dfs, selVars,
                   called, ret, y_positions, responses, error>>

\* lines 55-57: process_data is called outside the try blocks, so what it
\* raises ends main
Normalize ==
    /\ pc = "normalize"
    /\ normalized' = [normalized EXCEPT ![idx] = Some(data)]
    /\ called' = Dispatch(data)
    /\ ret' = process_data(data)
    /\ IF process_data(data).err = "None"
       THEN /\ all_batting_dfs' = Append(all_batting_dfs, process_data(data).batting)
            /\ all_bowling_dfs' = Append(all_bowling_dfs, process_data(data).bowling)
            /\ outcome' = [outcome EXCEPT ![idx] = "normalized"]
            /\ idx' = idx + 1
            /\ pc' = LoopNext
            /\ error' = error
       ELSE /\ pc' = "crashed"
            /\ error' = process_data(data).err
            /\ UNCHANGED <<all_batting_dfs, all_bowling_dfs, outcome, idx>>
    /\ UNCHANGED <<match_numbers, api_header, data, rv_match_id, nv_calls, map_calls,
                   rv_calls, nv_reply, selVars, y_positions, responses>>

\* lines 59-66: the tables are bound only when a frame was appended, and
\* print(batting_table) raises UnboundLocalError otherwise
Concat ==
    /\ pc = "concat"
    /\ IF all_batting_dfs = <<>>
       THEN /\ pc' = "crashed"
            /\ error' = "UnboundLocalError"
            /\ UNCHANGED <<batting_df, bowling_df>>
       ELSE /\ batting_df' = concat(all_batting_dfs)
            /\ bowling_df' = concat(all_bowling_dfs)
            /\ pc' = "load_sponsor_data"
            /\ error' = error
    /\ UNCHANGED <<mainVars, df, result, top_6_batters, top_6_bowlers, called, ret,
                   y_positions, responses>>

Next ==
    \/ GetHeader
    \/ NvApiCall
    \/ RvMapping
    \/ RvRequest
    \/ Normalize
    \/ Concat
    \/ LoadSponsorData
    \/ DataWrangling
    \/ GenerateBattingImage
    \/ GenerateBowlingImage

Spec == Init /\ [][Next]_vars


---------------------------------------------------------------------------
(* Claims about the fetch loop (Spec)                                      *)

Matches == 1..Len(match_numbers)

\* the primary call raised, returned no data, a payload without Match, or a
\* payload whose Innings is missing or empty
PrimaryFailed(reply) ==
    \/ reply.raised
    \/ reply.body = <<>>
    \/ "Match" \notin DOMAIN reply.body
    \/ "Innings" \notin DOMAIN reply.body
    \/ reply.body["Innings"] = <<>>

\* the for loop has ended, normally or by an exception
LoopOver ==
    pc \notin {"get_header", "nv_api_call", "rv_mapping", "rv_request", "normalize"}

\* C1: for every match the loop has reached, the NV endpoint was called exactly
\* once and before any fallback request; the fallback requests are sent at
\* most once each and only after a failed primary call; a primary payload with
\* Match and a non-empty Innings is the payload handed to process_data.
C1_PrimaryOnceThenFallback ==
    \A i \in Matches :
        /\ nv_calls[i] <= 1 /\ map_calls[i] <= 1 /\ rv_calls[i] <= 1
        /\ (i < idx \/ (i = idx /\ pc # "nv_api_call")) => nv_calls[i] = 1
        /\ map_calls[i] + rv_calls[i] > 0 =>
              nv_calls[i] = 1 /\ PrimaryFailed(nv_reply[i])
        /\ (nv_calls[i] = 1 /\ ~PrimaryFailed(nv_reply[i])) =>
              /\ outcome[i] \in {"fetched", "normalized"}
              /\ normalized[i] \in {None, Some(nv_reply[i].body)}
              /\ i < idx => normalized[i] = Some(nv_reply[i].body)

\* C1 witness: the loop has ended; one match was answered by the NV endpoint
\* with an empty Innings and normalized from the fallback payload, another was
\* normalized from its valid NV payload without any fallback request.
C1_Witness ==
    /\ pc = "concat"
    /\ \E i, j \in Matches :
          /\ ~nv_reply[i].raised
          /\ "Match" \in DOMAIN nv_reply[i].body
          /\ "Innings" \in DOMAIN nv_reply[i].body
          /\ nv_reply[i].body["Innings"] = <<>>
          /\ rv_calls[i] = 1 /\ nv_calls[i] = 1
          /\ outcome[i] = "normalized"
          /\ "MatchTeams" \in DOMAIN normalized[i][1]
          /\ ~PrimaryFailed(nv_reply[j])
          /\ map_calls[j] = 0 /\ rv_calls[j] = 0 /\ nv_calls[j] = 1
          /\ normalized[j] = Some(nv_reply[j].body)

\* C2: a match whose two attempts failed adds no frame, and once the loop is
\* over every match after a skipped one has been fetched and, if its fetch
\* succeeded, normalized.
C2_SkipNeverEndsLoop ==
    /\ Len(all_batting_dfs) = Cardinality({j \in Matches : outcome[j] = "normalized"})
    /\ Len(all_bowling_dfs) = Len(all_batting_dfs)
    /\ LoopOver =>
          \A i, j \in Matches :
              (outcome[i] = "skipped" /\ i < j) =>
                  outcome[j] \in {"skipped", "normalized"}


---------------------------------------------------------------------------
(* Claims about the season tables and the selector inside main (Spec)      *)

\* the records the normalizer emitted, by match frame and position
RecordIndex(dfs) ==
    {<<m, r>> \in (1..Len(dfs)) \X (1..12) : r <= Len(dfs[m])}

\* C11: every entry of the selector's output is one record that the
\* normalizer emitted for one match: its name is that record's (normalized)
\* name and its Runs (batting) or Wickets (bowling) is that record's own value,
\* never a total over matches; the season tables hold one row per record.
C11_PerMatchRecords ==
    Ranked =>
        /\ Len(batting_df) = Cardinality(RecordIndex(all_batting_dfs))
        /\ Len(bowling_df) = Cardinality(RecordIndex(all_bowling_dfs))
        /\ \A i \in 1..Len(top_6_batters) :
              \E e \in RecordIndex(all_batting_dfs) :
                  LET rec == all_batting_dfs[e[1]][e[2]]
                  IN  /\ NormalizeName(rec.PlayerName) = top_6_batters[i].PlayerName
                      /\ rec.Runs = top_6_batters[i].Runs
        /\ \A i \in 1..Len(top_6_bowlers) :
              \E e \in RecordIndex(all_bowling_dfs) :
                  LET rec == all_bowling_dfs[e[1]][e[2]]
                  IN  /\ NormalizeName(rec.PlayerName) = top_6_bowlers[i].PlayerName
                      /\ rec.Wickets = top_6_bowlers[i].Wickets

\* C11 witness: two matches were normalized, the same batter made 50 in each,
\* and the batting output holds him at two positions with 50 Runs each.
C11_Witness ==
    /\ Ranked
    /\ Len(all_batting_dfs) = 2
    /\ \A m \in 1..2 : \E r \in 1..Len(all_batting_dfs[m]) :
          /\ NormalizeName(all_batting_dfs[m][r].PlayerName) = Some(<<"A Smith">>)
          /\ all_batting_dfs[m][r].Runs = Some(50)
    /\ \E i, j \in 1..Len(top_6_batters) :
          /\ i < j
          /\ top_6_batters[i].PlayerName = Some(<<"A Smith">>)
          /\ top_6_batters[j].PlayerName = Some(<<"A Smith">>)
          /\ top_6_batters[i].Runs = Some(50)
          /\ top_6_batters[j].Runs = Some(50)
          /\ top_6_batters[i]["Sponsor Name"] = top_6_batters[j]["Sponsor Name"]

\* C13: when the header probe returned None, no Results Vault scorecard
\* request is sent, and a match whose primary call failed is never fetched: it
\* ends as skipped.
C13_NoFallbackWithoutHeader ==
    api_header = None =>
        \A i \in Matches :
            /\ rv_calls[i] = 0
            /\ (nv_calls[i] = 1 /\ PrimaryFailed(nv_reply[i])) =>
                  outcome[i] \in {"pending", "skipped"}

\* the match whose mapping lookup was the last one to be sent
LastLookup(i) == map_calls[i] = 1 /\ \A j \in Matches : j > i => map_calls[j] = 0

\* the payload the fetch of match i ended with, if it was accepted
Accepted(i) ==
    IF outcome[i] = "normalized" THEN normalized[i]
    ELSE IF outcome[i] = "fetched" THEN Some(data)
    ELSE None

\* C14: a Results Vault scorecard request is sent only after the mapping
\* lookup of the same match was sent, answered, and resolved an identifier
\* (object_id1); and a fallback payload is accepted only when it has the key
\* MatchTeams.
C14_LookupBeforeScorecard ==
    \A i \in Matches :
        /\ rv_calls[i] > 0 => map_calls[i] = 1
        /\ (rv_calls[i] > 0 /\ LastLookup(i)) => rv_match_id # None
        /\ (rv_calls[i] > 0 /\ Accepted(i) # None) =>
              "MatchTeams" \in DOMAIN Accepted(i)[1]

\* the position in the accumulators of the frames of match i: the number of
\* matches up to i that were normalized
FrameOf(i) == Cardinality({j \in Matches : j <= i /\ outcome[j] = "normalized"})

\* C21: whatever the match list and the fetch outcomes, main does not end
\* before the ranking stage (neither at the header probe, nor in the loop, nor
\* at the concatenation); the two accumulators always have the same length
\* and hold, in match-list order, the frames of exactly the matches that were
\* not skipped; and the ranking stage is entered with the loop finished and
\* both season tables made of those frames.
C21_LoopReachesRanking ==
    /\ error \notin {"IndexError", "UnboundLocalError"}
    /\ Len(all_batting_dfs) = Len(all_bowling_dfs)
    /\ Len(all_batting_dfs) = Cardinality({j \in Matches : outcome[j] = "normalized"})
    /\ \A i \in Matches :
          outcome[i] = "normalized" =>
              /\ all_batting_dfs[FrameOf(i)] = process_data(normalized[i][1]).batting
              /\ all_bowling_dfs[FrameOf(i)] = process_data(normalized[i][1]).bowling
    /\ pc = "load_sponsor_data" =>
          /\ \A i \in Matches : outcome[i] \in {"normalized", "skipped"}
          /\ batting_df = Flatten(all_batting_dfs)
          /\ bowling_df = Flatten(all_bowling_dfs)


---------------------------------------------------------------------------
(* scorecard_api.py: get_scorecard on the answers of the three endpoints    *)
(* (SpecCard)                                                               *)

\* the answers of the NV, the mapping and the Results Vault endpoint to one
\* scraper
Responses ==
    [nv : Replies(NvBodies), map : Replies(MapBodies), rv : Replies(RvBodies)]

\* lines 99-127: results_vault_api_call sends the lookup and then the
\* scorecard request; what either raises propagates, a body is returned as is
results_vault_api_call(r) ==
    IF r.map.raised
    THEN [raised |-> TRUE, data |-> <<>>, rv_match_id |-> None, rv_calls |-> 0]
    ELSE IF r.rv.raised
    THEN [raised |-> TRUE, data |-> <<>>,
          rv_match_id |-> Get(r.map.body, "object_id1"), rv_calls |-> 1]
    ELSE [raised |-> FALSE, data |-> r.rv.body,
          rv_match_id |-> Get(r.map.body, "object_id1"), rv_calls |-> 1]

\* lines 284-289: the NV body is returned whatever it holds; only an
\* exception of nv_api_call leads to results_vault_api_call, whose result or
\* exception is get_scorecard's
get_scorecard(r) ==
    IF ~r.nv.raised
    THEN [raised |-> FALSE, data |-> r.nv.body, rv_match_id |-> None,
          map_calls |-> 0, rv_calls |-> 0]
    ELSE results_vault_api_call(r) @@ [map_calls |-> 1]

\* main.py lines 40-53 on the same answers: the payload main hands to
\* process_data, None when main skips the match
MainFetch(r) ==
    IF ~r.nv.raised /\ NvAccepted(r.nv.body) THEN Some(r.nv.body)
    ELSE IF ~r.map.raised /\ ~r.rv.raised /\ RvAccepted(r.rv.body) THEN Some(r.rv.body)
    ELSE None

InitCard ==
    /\ match_numbers = <<1>>
    /\ api_header \in {None, Some("token")}
    /\ responses \in Responses
    /\ idx = 1
    /\ pc = "get_scorecard"
    /\ data = <<>>
    /\ rv_match_id = None
    /\ nv_calls = <<0>> /\ map_calls = <<0>> /\ rv_calls = <<0>>
    /\ outcome = <<"pending">>
    /\ nv_reply = <<[raised |-> TRUE]>>
    /\ normalized = <<None>>
    /\ called = "none"
    /\ ret = Return(<<>>, <<>>)
    /\ all_batting_dfs = <<>> /\ all_bowling_dfs = <<>>
    /\ batting_df = <<>> /\ bowling_df = <<>> /\ df = <<>> /\ result = <<>>
    /\ top_6_batters = <<>> /\ top_6_bowlers = <<>>
    /\ y_positions = None
    /\ error = "None"

\* scraper.get_scorecard()
GetScorecard ==
    /\ pc = "get_scorecard"
    /\ LET r == get_scorecard(responses)
       IN  /\ nv_calls' = <<1>>
           /\ nv_reply' = <<responses.nv>>
           /\ map_calls' = <<r.map_calls>>
           /\ rv_calls' = <<r.rv_calls>>
           /\ rv_match_id' = r.rv_match_id
           /\ data' = r.data
           /\ outcome' = <<IF r.raised THEN "pending" ELSE "fetched">>
           /\ pc' = IF r.raised THEN "scorecard_raised" ELSE "scorecard_returned"
           /\ error' = IF r.raised THEN "Exception" ELSE error
    /\ UNCHANGED <<match_numbers, api_header, idx, normalized, all_batting_dfs,
                   all_bowling_dfs, selVars, y_positions, responses, called, ret>>

NextCard == GetScorecard

SpecCard == InitCard /\ [][NextCard]_vars

\* C22: get_scorecard returns exactly the payload main would hand to
\* process_data on the same answers of the endpoints, and raises exactly when
\* main would skip the match.
C22_SameFetchPolicy ==
    pc \in {"scorecard_returned", "scorecard_raised"} =>
        IF MainFetch(responses) = None
        THEN pc = "scorecard_raised"
        ELSE pc = "scorecard_returned" /\ data = MainFetch(responses)[1]

====
